---- MODULE Spec2Model ----
(***************************************************************************)
(* Model of toolchain/c_sanity_check.c: the compile-time layout gate       *)
(* (STATIC_CHECK), the report written by main, and the four dummy          *)
(* callback handlers.  Output is modelled as the sequence of characters    *)
(* written to standard output; printf conversions are computed digit by    *)
(* digit.                                                                  *)
(***************************************************************************)
EXTENDS Integers, Sequences, FiniteSets

VARIABLES
    platform,   \* target ABI the translation unit is compiled for
    build,      \* "pending", "ok" or "failed": outcome of compiling the unit
    failed,     \* entities whose STATIC_CHECK did not hold at compile time
    pc,         \* per process: position in main
    base,       \* per process: load address of the image
    out,        \* per process: characters written to standard output
    exit,       \* per process: <<status>> once main has returned, <<>> before
    invoked,    \* per process: handlers main has called
    stream,     \* handler harness: characters written to standard output
    last,       \* handler harness: the most recent call and its effects
    ncalls      \* handler harness: number of calls made

vars == <<platform, build, failed, pc, base, out, exit, invoked, stream, last, ncalls>>

mainVars == <<platform, build, failed, pc, base, out, exit, invoked>>
harnessVars == <<stream, last, ncalls>>

-----------------------------------------------------------------------------
(* Bounds of the model *)

NumRuns == 2
NumBases == 2
MaxCalls == 1

-----------------------------------------------------------------------------
(* Characters and printf conversions *)

NL == "\n"
NUL == "NUL"

Max(a, b) == IF a >= b THEN a ELSE b

RoundUp(n, a) == ((n + a - 1) \div a) * a

DigitChar(d) == <<"0", "1", "2", "3", "4", "5", "6", "7", "8", "9",
                  "a", "b", "c", "d", "e", "f">>[d + 1]

RECURSIVE Radix(_, _)
Radix(n, r) == IF n < r THEN <<DigitChar(n)>>
               ELSE Radix(n \div r, r) \o <<DigitChar(n % r)>>

\* %zu and %llu
FmtUnsigned(n) == Radix(n, 10)

\* %d
FmtInt(n) == IF n < 0 THEN <<"-">> \o Radix(0 - n, 10) ELSE Radix(n, 10)

\* %p: the form is implementation-defined; the usual one, 0x and the address
\* in hexadecimal, is taken.  The address is printed as it is in this process.
FmtPtr(a) == <<"0", "x">> \o Radix(a, 16)

-----------------------------------------------------------------------------
(* Constants *)

MIHOMO_OK == 0
MIHOMO_ERR_INIT == 1
MIHOMO_ERR_INVALID_ARG == 2
MIHOMO_ERR_RUNTIME == 3
MIHOMO_ERR_NOT_INITIALIZED == 4
MIHOMO_STATE_STOPPED == 0
MIHOMO_STATE_RUNNING == 2

-----------------------------------------------------------------------------
(* Struct layout *)

Field(t, n) == [type |-> t, count |-> n]

MihomoVersion == <<Field("char", 64)>>
MihomoTrafficSample == <<Field("uint64_t", 1), Field("uint64_t", 1), Field("uint64_t", 1)>>
MihomoMemorySample == <<Field("uint64_t", 1), Field("uint64_t", 1)>>
MihomoLogEntry == <<Field("uint64_t", 1), Field("char", 16), Field("char", 512)>>
MihomoConnection == <<Field("char", 64), Field("char", 256), Field("uint16_t", 1),
                      Field("char", 256), Field("uint64_t", 1)>>
MihomoInitOptions == <<Field("ptr", 1), Field("ptr", 1), Field("ptr", 1), Field("ptr", 1),
                       Field("int", 1)>>

Entities == {"ver", "tx", "mem", "log", "conn"}

Fields(e) == CASE e = "ver" -> MihomoVersion
               [] e = "tx" -> MihomoTrafficSample
               [] e = "mem" -> MihomoMemorySample
               [] e = "log" -> MihomoLogEntry
               [] e = "conn" -> MihomoConnection
               [] e = "opt" -> MihomoInitOptions

\* Target ABIs: alignment of uint16_t and uint64_t members, width of a pointer.
\* a64 = 8 is natural alignment, 4 the i386 System V rule, 1 a packed build,
\* 16 an ABI that over-aligns 8-byte members (LogEntry then measures 544).
Platforms == [a16 : {1, 2}, a64 : {1, 4, 8, 16}, ptr : {4, 8}]

Natural == [a16 |-> 2, a64 |-> 8, ptr |-> 8]

TypeSize(t, p) == CASE t = "char" -> 1
                    [] t = "uint16_t" -> 2
                    [] t = "int" -> 4
                    [] t = "uint64_t" -> 8
                    [] t = "ptr" -> p.ptr

TypeAlignPacked(t, p) == 1

\* Alignment of a member of type t in target ABI p.
TypeAlign(t, p) == CASE t = "char" -> 1
                     [] t = "uint16_t" -> p.a16
                     [] t = "int" -> 4
                     [] t = "uint64_t" -> p.a64
                     [] t = "ptr" -> p.ptr

RECURSIVE EndOffset(_, _, _)
EndOffset(fs, off, p) ==
    IF fs = <<>> THEN off
    ELSE EndOffset(Tail(fs),
                   RoundUp(off, TypeAlign(Head(fs).type, p))
                       + TypeSize(Head(fs).type, p) * Head(fs).count,
                   p)

RECURSIVE StructAlign(_, _)
StructAlign(fs, p) ==
    IF fs = <<>> THEN 1
    ELSE Max(TypeAlign(Head(fs).type, p), StructAlign(Tail(fs), p))

\* sizeof: members in declaration order, each at its alignment, the total
\* rounded up to the alignment of the struct
SizeOf(e, p) == RoundUp(EndOffset(Fields(e), 0, p), StructAlign(Fields(e), p))

Declared(e) == CASE e = "ver" -> 64
                 [] e = "tx" -> 24
                 [] e = "mem" -> 16
                 [] e = "log" -> 536
                 [] e = "conn" -> 592

StaticCheckAlways(expr) == TRUE

\* typedef char static_assertion_...[(expr)?1:-1] is accepted by the compiler
\* exactly when expr holds
StaticCheck(expr) == expr

-----------------------------------------------------------------------------
(* The report lines of main *)

Runs == 1..NumRuns

\* Load addresses the loader may choose for a process image.
Bases == {4096 * k : k \in 1..NumBases}

Handlers == <<"cb_tx", "cb_mem", "cb_log", "cb_state">>

\* Address of a handler in an image loaded at b: handlers are laid out in
\* definition order in the text of the image.
HandlerAddr(h, b) == b + 16 * (CHOOSE i \in 1..Len(Handlers) : Handlers[i] = h)

AbiLine == <<"M", "I", "H", "O", "M", "O", ":", "A", "B", "I">> \o <<NL>>

SizeLine(p) ==
    <<"S", "I", "Z", "E", ":", "v", "e", "r", "=">> \o FmtUnsigned(SizeOf("ver", p))
    \o <<" ", "t", "x", "=">> \o FmtUnsigned(SizeOf("tx", p))
    \o <<" ", "m", "e", "m", "=">> \o FmtUnsigned(SizeOf("mem", p))
    \o <<" ", "l", "o", "g", "=">> \o FmtUnsigned(SizeOf("log", p))
    \o <<" ", "c", "o", "n", "n", "=">> \o FmtUnsigned(SizeOf("conn", p))
    \o <<" ", "o", "p", "t", "=">> \o FmtUnsigned(SizeOf("opt", p))
    \o <<NL>>

EnumLineByValue(ok, init, halt, run) ==
    <<"E", "N", "U", "M", ":">>
    \o (IF halt < init
        THEN <<"o", "k", "=">> \o FmtInt(ok)
             \o <<" ", "h", "a", "l", "t", "=">> \o FmtInt(halt)
             \o <<" ", "i", "n", "i", "t", "=">> \o FmtInt(init)
        ELSE <<"o", "k", "=">> \o FmtInt(ok)
             \o <<" ", "i", "n", "i", "t", "=">> \o FmtInt(init)
             \o <<" ", "h", "a", "l", "t", "=">> \o FmtInt(halt))
    \o <<" ", "r", "u", "n", "=">> \o FmtInt(run)
    \o <<NL>>

EnumLine(ok, init, halt, run) ==
    <<"E", "N", "U", "M", ":", "o", "k", "=">> \o FmtInt(ok)
    \o <<" ", "i", "n", "i", "t", "=">> \o FmtInt(init)
    \o <<" ", "h", "a", "l", "t", "=">> \o FmtInt(halt)
    \o <<" ", "r", "u", "n", "=">> \o FmtInt(run)
    \o <<NL>>

CbPtrLine(b) ==
    <<"C", "B", "P", "T", "R", ":", "t", "x", "=">> \o FmtPtr(HandlerAddr("cb_tx", b))
    \o <<" ", "m", "e", "m", "=">> \o FmtPtr(HandlerAddr("cb_mem", b))
    \o <<" ", "l", "o", "g", "=">> \o FmtPtr(HandlerAddr("cb_log", b))
    \o <<" ", "s", "t", "a", "t", "e", "=">> \o FmtPtr(HandlerAddr("cb_state", b))
    \o <<NL>>

DeclLine == <<"D", "E", "C", "L", ":", "l", "i", "n", "k">> \o <<NL>>

-----------------------------------------------------------------------------
(* Compilation and main *)

Init ==
    /\ platform \in Platforms
    /\ build = "pending"
    /\ failed = {}
    /\ pc = [r \in Runs |-> "none"]
    /\ base = [r \in Runs |-> 0]
    /\ out = [r \in Runs |-> <<>>]
    /\ exit = [r \in Runs |-> <<>>]
    /\ invoked = [r \in Runs |-> {}]
    /\ stream = <<>>
    /\ last = [fn |-> "none", s |-> <<>>, c |-> <<>>, start |-> 0,
               after |-> [out |-> <<>>, s |-> <<>>, c |-> <<>>, fault |-> FALSE]]
    /\ ncalls = 0

\* OUT(...): the text is appended to the standard output of the process.
Write(r, text) == [out EXCEPT ![r] = @ \o text]

Goto(r, next) == [pc EXCEPT ![r] = next]

\* The five STATIC_CHECK declarations: the unit compiles only if all hold.
Compile ==
    /\ build = "pending"
    /\ failed' = {e \in Entities : ~StaticCheck(SizeOf(e, platform) = Declared(e))}
    /\ build' = IF failed' = {} THEN "ok" ELSE "failed"
    /\ UNCHANGED <<platform, pc, base, out, exit, invoked>>
    /\ UNCHANGED harnessVars

\* A process of the compiled program starts.
Exec(r) ==
    /\ build = "ok"
    /\ pc[r] = "none"
    /\ \E b \in Bases : base' = [base EXCEPT ![r] = b]
    /\ pc' = Goto(r, "l62")
    /\ UNCHANGED <<platform, build, failed, out, exit, invoked>>
    /\ UNCHANGED harnessVars

L62(r) ==
    /\ pc[r] = "l62"
    /\ out' = Write(r, AbiLine)
    /\ pc' = Goto(r, "l63")
    /\ UNCHANGED <<platform, build, failed, base, exit, invoked>>
    /\ UNCHANGED harnessVars

L63(r) ==
    /\ pc[r] = "l63"
    /\ out' = Write(r, SizeLine(platform))
    /\ pc' = Goto(r, "l65")
    /\ UNCHANGED <<platform, build, failed, base, exit, invoked>>
    /\ UNCHANGED harnessVars

L65(r) ==
    /\ pc[r] = "l65"
    /\ out' = Write(r, EnumLine(MIHOMO_OK, MIHOMO_ERR_INIT,
                                MIHOMO_STATE_STOPPED, MIHOMO_STATE_RUNNING))
    /\ pc' = Goto(r, "l66")
    /\ UNCHANGED <<platform, build, failed, base, exit, invoked>>
    /\ UNCHANGED harnessVars

L66FinalMarker(r) ==
    /\ pc[r] = "l66"
    /\ out' = Write(r, DeclLine)
    /\ pc' = Goto(r, "l67")
    /\ UNCHANGED <<platform, build, failed, base, exit, invoked>>
    /\ UNCHANGED harnessVars

L66(r) ==
    /\ pc[r] = "l66"
    /\ out' = Write(r, CbPtrLine(base[r]))
    /\ pc' = Goto(r, "l67")
    /\ UNCHANGED <<platform, build, failed, base, exit, invoked>>
    /\ UNCHANGED harnessVars

L67(r) ==
    /\ pc[r] = "l67"
    /\ out' = Write(r, DeclLine)
    /\ pc' = Goto(r, "l68")
    /\ UNCHANGED <<platform, build, failed, base, exit, invoked>>
    /\ UNCHANGED harnessVars

L68ReturnsOne(r) ==
    /\ pc[r] = "l68"
    /\ exit' = [exit EXCEPT ![r] = <<1>>]
    /\ pc' = Goto(r, "done")
    /\ UNCHANGED <<platform, build, failed, base, out, invoked>>
    /\ UNCHANGED harnessVars

\* return 0
L68(r) ==
    /\ pc[r] = "l68"
    /\ exit' = [exit EXCEPT ![r] = <<0>>]
    /\ pc' = Goto(r, "done")
    /\ UNCHANGED <<platform, build, failed, base, out, invoked>>
    /\ UNCHANGED harnessVars

Next ==
    \/ Compile
    \/ \E r \in Runs : Exec(r)
    \/ \E r \in Runs : L62(r)
    \/ \E r \in Runs : L63(r)
    \/ \E r \in Runs : L65(r)
    \/ \E r \in Runs : L66(r)
    \/ \E r \in Runs : L67(r)
    \/ \E r \in Runs : L68(r)

Spec == Init /\ [][Next]_vars

-----------------------------------------------------------------------------
(* The dummy handlers *)

\* A pointer argument is <<>> when null and <<v>> when it points to an
\* object holding v.  Each handler yields what it writes to standard output
\* and the objects behind its pointer arguments as they are after the call.

cb_txSwapped(s, c) ==
    [out |-> IF s # <<>>
             THEN <<"N", "E", "T", ":", "T", "X", "=">> \o FmtUnsigned(s[1].down)
                  \o <<" ", "R", "X", "=">> \o FmtUnsigned(s[1].up) \o <<NL>>
             ELSE <<>>,
     s |-> s, c |-> c, fault |-> FALSE]

cb_tx(s, c) ==
    [out |-> IF s # <<>>
             THEN <<"N", "E", "T", ":", "T", "X", "=">> \o FmtUnsigned(s[1].up)
                  \o <<" ", "R", "X", "=">> \o FmtUnsigned(s[1].down) \o <<NL>>
             ELSE <<>>,
     s |-> s, c |-> c, fault |-> FALSE]

cb_mem(s, c) ==
    [out |-> IF s # <<>>
             THEN <<"M", "E", "M", ":", "U", "S", "E", "=">> \o FmtUnsigned(s[1].inuse)
                  \o <<NL>>
             ELSE <<>>,
     s |-> s, c |-> c, fault |-> FALSE]

\* A char array holding text, the rest of its cap bytes zero.
Buf(text, cap) == [i \in 1..cap |-> IF i <= Len(text) THEN text[i] ELSE NUL]

Terminated(buf) == \E i \in 1..Len(buf) : buf[i] = NUL

\* The characters of a terminated array up to its first zero byte.
CStr(buf) ==
    LET z == CHOOSE i \in 1..Len(buf) :
                 buf[i] = NUL /\ \A j \in 1..(i - 1) : buf[j] # NUL
    IN SubSeq(buf, 1, z - 1)

\* What may lie behind an array that holds no zero byte, up to the next one.
Overrun == {<<>>, <<"?">>, <<NL>>}

\* %s: the text printf may produce for an array.  Reading an array that holds
\* no zero byte runs past its end, which is undefined.
FmtStr(buf) ==
    IF Terminated(buf) THEN {CStr(buf)} ELSE {buf \o g : g \in Overrun}

cb_logNoGuard(s, c) ==
    IF s = <<>> THEN {[out |-> <<>>, s |-> s, c |-> c, fault |-> TRUE]}
    ELSE {[out |-> <<"L", "O", "G", ":">> \o l \o <<":">> \o t \o <<NL>>,
           s |-> s, c |-> c, fault |-> FALSE] :
              l \in FmtStr(s[1].level), t \in FmtStr(s[1].payload)}

cb_log(s, c) ==
    IF s = <<>> THEN {[out |-> <<>>, s |-> s, c |-> c, fault |-> FALSE]}
    ELSE {[out |-> <<"L", "O", "G", ":">> \o l \o <<":">> \o t \o <<NL>>,
           s |-> s, c |-> c, fault |-> FALSE] :
              l \in FmtStr(s[1].level), t \in FmtStr(s[1].payload)}
         \cup (IF Terminated(s[1].level) /\ Terminated(s[1].payload) THEN {}
               ELSE {[out |-> <<>>, s |-> s, c |-> c, fault |-> TRUE]})

cb_state(s, c) ==
    [out |-> <<"S", "T", "A", "T", "E", ":">> \o FmtInt(s) \o <<NL>>,
     s |-> s, c |-> c, fault |-> FALSE]

-----------------------------------------------------------------------------
(* Calls of the handlers and of the enum format with chosen arguments *)

Counters == {0, 1000, 2000}
Ints == {0 - 1, 0, 2}
Contexts == {<<>>, <<7>>}

TrafficArgs == {<<>>} \cup
    {<<[timestamp_ms |-> 1, up |-> u, down |-> d]>> : u \in Counters, d \in Counters}

MemoryArgs == {<<>>} \cup {<<[timestamp_ms |-> 1, inuse |-> u]>> : u \in Counters}

Levels == {Buf(<<>>, 16), Buf(<<"I">>, 16), Buf([i \in 1..16 |-> "W"], 16)}

Payloads == {Buf(<<>>, 512), Buf(<<"b">>, 512), Buf(<<"b", NL, "c">>, 512),
             Buf([i \in 1..512 |-> "p"], 512)}

LogArgs == {<<>>} \cup
    {<<[timestamp_ms |-> 1, level |-> l, payload |-> t]>> : l \in Levels, t \in Payloads}

InitFn ==
    /\ platform = Natural
    /\ build = "pending"
    /\ failed = {}
    /\ pc = [r \in Runs |-> "none"]
    /\ base = [r \in Runs |-> 0]
    /\ out = [r \in Runs |-> <<>>]
    /\ exit = [r \in Runs |-> <<>>]
    /\ invoked = [r \in Runs |-> {}]
    /\ stream = <<>>
    /\ last = [fn |-> "none", s |-> <<>>, c |-> <<>>, start |-> 0,
               after |-> [out |-> <<>>, s |-> <<>>, c |-> <<>>, fault |-> FALSE]]
    /\ ncalls = 0

\* A handler is called only while the process is alive.
CanCall == ncalls < MaxCalls /\ ~last.after.fault

\* One call: its arguments, where its output starts, and its result.
Record(fn, s, c, res) ==
    [fn |-> fn, s |-> s, c |-> c, start |-> Len(stream), after |-> res]

CallTx ==
    \E s \in TrafficArgs, c \in Contexts :
        /\ CanCall
        /\ ncalls' = ncalls + 1
        /\ stream' = stream \o cb_tx(s, c).out
        /\ last' = Record("cb_tx", s, c, cb_tx(s, c))
        /\ UNCHANGED mainVars

CallMem ==
    \E s \in MemoryArgs, c \in Contexts :
        /\ CanCall
        /\ ncalls' = ncalls + 1
        /\ stream' = stream \o cb_mem(s, c).out
        /\ last' = Record("cb_mem", s, c, cb_mem(s, c))
        /\ UNCHANGED mainVars

CallLog ==
    \E s \in LogArgs, c \in Contexts :
        \E res \in cb_log(s, c) :
            /\ CanCall
            /\ ncalls' = ncalls + 1
            /\ stream' = stream \o res.out
            /\ last' = Record("cb_log", s, c, res)
            /\ UNCHANGED mainVars

CallState ==
    \E s \in Ints, c \in Contexts :
        /\ CanCall
        /\ ncalls' = ncalls + 1
        /\ stream' = stream \o cb_state(s, c).out
        /\ last' = Record("cb_state", <<s>>, c, cb_state(s, c))
        /\ UNCHANGED mainVars

\* The format of the enum line applied to chosen constant values.
FormatEnum ==
    \E ok \in Ints, init \in Ints, halt \in Ints, run \in Ints :
        /\ CanCall
        /\ ncalls' = ncalls + 1
        /\ stream' = stream \o EnumLine(ok, init, halt, run)
        /\ last' = Record("enum", <<ok, init, halt, run>>, <<>>,
                          [out |-> EnumLine(ok, init, halt, run),
                           s |-> <<ok, init, halt, run>>, c |-> <<>>, fault |-> FALSE])
        /\ UNCHANGED mainVars

NextFn ==
    \/ CallTx
    \/ CallMem
    \/ CallLog
    \/ CallState
    \/ FormatEnum

SpecFn == InitFn /\ [][NextFn]_vars

-----------------------------------------------------------------------------
(* Reading the output back, as a parser of the report does *)

\* The pieces of s between occurrences of the character c.
Pieces(s, c) ==
    LET pos == {i \in 1..Len(s) : s[i] = c}
        n == Cardinality(pos)
        Nth(k) == IF k = 0 THEN 0
                  ELSE IF k = n + 1 THEN Len(s) + 1
                  ELSE CHOOSE i \in pos : Cardinality({j \in pos : j <= i}) = k
    IN [k \in 1..(n + 1) |-> SubSeq(s, Nth(k - 1) + 1, Nth(k) - 1)]

\* The complete lines of s, without their terminators.
LinesOf(s) == SubSeq(Pieces(s, NL), 1, Len(Pieces(s, NL)) - 1)

\* s holds complete lines only.
WholeLines(s) == s = <<>> \/ s[Len(s)] = NL

StartsWith(s, pre) == Len(s) >= Len(pre) /\ SubSeq(s, 1, Len(pre)) = pre

After(s, pre) == SubSeq(s, Len(pre) + 1, Len(s))

KeyOf(entry) == Pieces(entry, "=")[1]

ValOf(entry) == Pieces(entry, "=")[2]

IsDigits(s, r) == s # <<>> /\ \A i \in 1..Len(s) : \E d \in 0..(r - 1) : DigitChar(d) = s[i]

RECURSIVE ParseRadix(_, _)
ParseRadix(s, r) ==
    IF s = <<>> THEN 0
    ELSE ParseRadix(SubSeq(s, 1, Len(s) - 1), r) * r
         + (CHOOSE d \in 0..(r - 1) : DigitChar(d) = s[Len(s)])

ParseInt(s) == IF s # <<>> /\ s[1] = "-" THEN 0 - ParseRadix(Tail(s), 10)
               ELSE ParseRadix(s, 10)

\* The entries "key=value" of a report line that starts with tag.
Entries(line, tag) == Pieces(After(line, tag), " ")

Keys(line, tag) == [k \in 1..Len(Entries(line, tag)) |-> KeyOf(Entries(line, tag)[k])]

IntValues(line, tag) ==
    [k \in 1..Len(Entries(line, tag)) |-> ParseInt(ValOf(Entries(line, tag)[k]))]

\* The text written by the most recent handler call.
Written == SubSeq(stream, last.start + 1, Len(stream))

ReportTags == <<
    <<"M", "I", "H", "O", "M", "O", ":", "A", "B", "I">>,
    <<"S", "I", "Z", "E", ":">>,
    <<"E", "N", "U", "M", ":">>,
    <<"C", "B", "P", "T", "R", ":">>,
    <<"D", "E", "C", "L", ":", "l", "i", "n", "k">> >>

\* Positions of main after the given line has been written.
PastL63 == {"l65", "l66", "l67", "l68", "done"}
PastL65 == {"l66", "l67", "l68", "done"}

Mismatched == {e \in Entities : SizeOf(e, platform) # Declared(e)}

\* Nothing more can happen: the build failed, or every process has exited.
Halted == build = "failed" \/ \A r \in Runs : pc[r] = "done"

-----------------------------------------------------------------------------
(* Claims about the build gate and the report of main, under Spec *)

C3_FiveLinesInOrder ==
    \A r \in Runs :
        LET ls == LinesOf(out[r])
        IN /\ WholeLines(out[r])
           /\ Len(ls) <= 5
           /\ \A k \in 1..Len(ls) :
                  /\ StartsWith(ls[k], ReportTags[k])
                  /\ \A j \in 1..5 : j > k => ~StartsWith(ls[k], ReportTags[j])
           /\ pc[r] = "done" =>
                  /\ Len(ls) = 5
                  /\ ls[1] = ReportTags[1]
                  /\ ls[5] = ReportTags[5]

C3_Witness ==
    \E r \in Runs : pc[r] = "done" /\ Len(LinesOf(out[r])) = 5

\* C4: on a target with natural alignment the five measured sizes are 64,
\* 24, 16, 536 and 592, the build succeeds, the sizes line of every run
\* carries these five values in this order, and the run exits 0.
C4_NaturalLayoutMatches ==
    (platform.a16 = 2 /\ platform.a64 = 8) =>
        /\ <<SizeOf("ver", platform), SizeOf("tx", platform), SizeOf("mem", platform),
             SizeOf("log", platform), SizeOf("conn", platform)>> = <<64, 24, 16, 536, 592>>
        /\ build # "failed"
        /\ \A r \in Runs :
               /\ pc[r] \in PastL63 =>
                      /\ Keys(LinesOf(out[r])[2], ReportTags[2])
                             = << <<"v", "e", "r">>, <<"t", "x">>, <<"m", "e", "m">>,
                                  <<"l", "o", "g">>, <<"c", "o", "n", "n">>,
                                  <<"o", "p", "t">> >>
                      /\ SubSeq(IntValues(LinesOf(out[r])[2], ReportTags[2]), 1, 5)
                             = <<64, 24, 16, 536, 592>>
               /\ pc[r] = "done" => exit[r] = <<0>>

C4_Witness ==
    /\ platform = Natural
    /\ \E r \in Runs : pc[r] = "done" /\ exit[r] = <<0>>

\* C5: once the enum line is written it carries an entry for each of the
\* seven constants of the registry: the five result codes and the two
\* lifecycle states.
C5_EnumLineListsAllConstants ==
    \A r \in Runs :
        pc[r] \in PastL65 =>
            LET vals == IntValues(LinesOf(out[r])[3], ReportTags[3])
            IN /\ Len(vals) = 7
               /\ \A v \in {MIHOMO_OK, MIHOMO_ERR_INIT, MIHOMO_ERR_INVALID_ARG,
                            MIHOMO_ERR_RUNTIME, MIHOMO_ERR_NOT_INITIALIZED,
                            MIHOMO_STATE_STOPPED, MIHOMO_STATE_RUNNING} :
                      \E k \in 1..Len(vals) : vals[k] = v

\* C8: main calls no handler, so invoked is never written by any step of
\* main; the claim says otherwise.
\* C8 (as stated): a process that has terminated has obtained the non-null address of
\* each of the four handlers and has invoked each of them.
C8_HandlersObtainedAndInvoked ==
    \A r \in Runs :
        pc[r] = "done" =>
            /\ \A i \in 1..Len(Handlers) : HandlerAddr(Handlers[i], base[r]) # 0
            /\ invoked[r] = {Handlers[i] : i \in 1..Len(Handlers)}

\* C9: two processes of the same build that have reached the same position
\* have written the same output and have the same exit status.
C9_RunsAreIdentical ==
    \A r1 \in Runs, r2 \in Runs :
        pc[r1] = pc[r2] => out[r1] = out[r2] /\ exit[r1] = exit[r2]

-----------------------------------------------------------------------------
(* Claims about the enum format and the handlers, under SpecFn *)

\* C6: whatever the values of the four constants, the entries of the enum
\* line are ok, init, halt, run in this order, and the value at each position
\* is the value of the constant of that position.
C6_EnumOrderIsPositional ==
    last.fn = "enum" =>
        /\ Len(LinesOf(Written)) = 1
        /\ WholeLines(Written)
        /\ StartsWith(LinesOf(Written)[1], ReportTags[3])
        /\ Keys(LinesOf(Written)[1], ReportTags[3])
               = << <<"o", "k">>, <<"i", "n", "i", "t">>, <<"h", "a", "l", "t">>,
                    <<"r", "u", "n">> >>
        /\ IntValues(LinesOf(Written)[1], ReportTags[3]) = last.s

\* the stopped constant is larger than the init-error constant
C6_Witness ==
    /\ last.fn = "enum"
    /\ last.s[3] > last.s[2]
    /\ last.s[1] > last.s[4]

\* C7: the traffic handler called with a non-null sample writes exactly one
\* line, which carries the upload value and then the download value as
\* unsigned decimals, and leaves the sample and the context object as they
\* were.
C7_TrafficLineCarriesBothValues ==
    (last.fn = "cb_tx" /\ last.s # <<>>) =>
        /\ Len(LinesOf(Written)) = 1
        /\ WholeLines(Written)
        /\ LET es == Pieces(LinesOf(Written)[1], " ")
           IN /\ Len(es) = 2
              /\ KeyOf(es[1]) = <<"N", "E", "T", ":", "T", "X">>
              /\ KeyOf(es[2]) = <<"R", "X">>
              /\ IsDigits(ValOf(es[1]), 10)
              /\ IsDigits(ValOf(es[2]), 10)
              /\ ParseRadix(ValOf(es[1]), 10) = last.s[1].up
              /\ ParseRadix(ValOf(es[2]), 10) = last.s[1].down
        /\ last.after.s = last.s
        /\ last.after.c = last.c
        /\ ~last.after.fault

C7_Witness ==
    /\ last.fn = "cb_tx"
    /\ last.s # <<>>
    /\ last.s[1].up = 1000
    /\ last.s[1].down = 2000
    /\ last.c # <<>>

SampleTaking == {"cb_tx", "cb_mem", "cb_log"}

LineBreaks(s) == Cardinality({i \in 1..Len(s) : s[i] = NL})

====
